---- MODULE Spec2Model ----
(***************************************************************************)
(* Geofence location-update path of the panic alert backend.               *)
(*                                                                         *)
(* The model follows backend/geofencing_service/router.py::update_location *)
(* step by step (one action per await), the GeofenceEvent table it writes, *)
(* the Kafka publish boundary of backend/shared/kafka_client.py and the    *)
(* circle test of backend/shared/location.py.                              *)
(*                                                                         *)
(* Abstractions:                                                           *)
(*  - time is counted in whole minutes (the look-back window of the        *)
(*    duplicate check and the dwell threshold are both minutes);           *)
(*  - points lie on one meridian and a coordinate is the arc length in     *)
(*    metres from a reference point; on a meridian the Haversine formula   *)
(*    of calculate_distance reduces to earth_radius * |dlat|, so the       *)
(*    distance of two points is the absolute difference of coordinates.    *)
(***************************************************************************)
EXTENDS Integers, Sequences, FiniteSets

\* ------------------------------------------------------------------ bounds
\* Largest value of the clock (minutes).
MaxTime == 6
\* Granularity of the clock: minutes that pass in one Tick.
TickMinutes == 3
\* Number of location-update requests the model starts.
MaxRequests == 3
\* Number of requests started when requests may overlap.
MaxOverlapRequests == 3
\* A sample's timestamp lags the clock by at most this many ticks.
MaxLag == 1
\* Number of create, update and delete calls the model starts.
MaxCrudRequests == 3
\* Number of active geofences the user of the CRUD calls starts with.
InitialGeofenceCount == 9
\* Number of create and update calls with shape data the model starts.
MaxShapeRequests == 2

\* POST /refresh and POST /logout requests in one behaviour.
MaxAuthRequests == 4

\* Emergency-contact requests in one behaviour.
MaxContactRequests == 3

\* Messages delivered to the consumer in one behaviour.
MaxMessages == 4

\* ------------------------------------------------------- program constants
\* timedelta(minutes=5): look-back window of the recent-event query.
RecentWindowMinutes == 5
\* create_geofence: "if geofence_count >= 10".
MaxActiveGeofences == 10
\* settings.GEOFENCE_BUFFER_DISTANCE (metres).
GEOFENCE_BUFFER_DISTANCE == 50
\* Geofence.dwell_time_minutes default.
DwellTimeMinutes == 5

\* settings.REFRESH_TOKEN_EXPIRE_DAYS
REFRESH_TOKEN_EXPIRE_DAYS == 7

\* The limit of emergency contacts per user in create_emergency_contact.
MaxEmergencyContacts == 5

Users == {"u1", "u2"}
Reqs == {"r1", "r2"}
GeoIds == {"g1", "g2", "g3"}
\* Sample coordinates (metres along the meridian).
Positions == {150, 220, 300}
\* Length of one degree of latitude in metres: earth_radius * pi / 180.
MetersPerDegree == 111195
\* Coordinates of request bodies, in whole degrees. The geofences lie on the
\* meridian of longitude 0.
Latitudes == {-91, -90, 0, 90, 91}
Longitudes == {-181, 0, 181}
None == "none"
\* NULL in a nullable DateTime column.
NoTime == -1

VARIABLES
  now,            \* wall clock, minutes
  geofences,      \* geofences table: id -> row
  db_events,      \* geofence_events table, committed rows in commit order
  bus,            \* messages acknowledged by Kafka, in publish order
  pc,             \* per request: position in update_location
  user,           \* per request: current_user.id
  sample,         \* per request: location_data
  zones,          \* per request: geofences read at the start, in result order
  idx,            \* per request: loop index into zones
  pending,        \* per request: rows db.add()ed to the session, not committed
  result,         \* per request: outcome of the last finished request
  error,          \* per request: exception that ended the last request
  decided,        \* history: transitions decided by the current/last request
  lastProcessed,  \* history: per user, timestamp of the last sample committed
  nreq,           \* number of requests begun
  probe,          \* input and results of one containment query
  call,           \* per request: arguments and locals of a geofence CRUD call
  refresh_tokens, \* refresh_tokens table: token -> row
  contacts,       \* emergency_contacts table: id -> row
  consumer        \* one Kafka consumer: its iterator, handler calls and log

vars == <<now, geofences, db_events, bus, pc, user, sample, zones, idx, pending,
          result, error, decided, lastProcessed, nreq, probe, call,
          refresh_tokens, contacts, consumer>>

\* The state of the services the geofencing handlers do not touch.
services == <<refresh_tokens, contacts, consumer>>

reqvars == <<pc, user, sample, zones, idx, pending, result, error, decided>>

\* ---------------------------------------------------------------- geometry
Abs(x) == IF x < 0 THEN -x ELSE x

\* calculate_distance restricted to points of one meridian.
calculate_distance(lat1, lat2) == Abs(lat2 - lat1)

is_point_in_circle_strict(point, center, radius_meters) ==
  calculate_distance(point, center) < radius_meters

\* location.py: distance <= radius_meters
is_point_in_circle(point, center, radius_meters) ==
  calculate_distance(point, center) <= radius_meters

\* router.py line 374: is_inside = distance <= geofence.radius_meters
IsInside(distance, geofence) == distance <= geofence.radius_meters

validate_latitude_no_upper_bound(v) == -90 <= v

\* schemas.py LocationUpdate.validate_latitude: passes unless
\* not -90 <= v <= 90.
validate_latitude(v) == -90 <= v /\ v <= 90

\* schemas.py LocationUpdate.validate_longitude: passes unless
\* not -180 <= v <= 180.
validate_longitude(v) == -180 <= v /\ v <= 180

\* location.py validate_coordinates.
validate_coordinates(latitude, longitude) ==
  (-90 <= latitude /\ latitude <= 90) /\ (-180 <= longitude /\ longitude <= 180)

\* Inputs of the containment queries.
ProbePoints == {0, 150, 190, 200, 210, 220, 300}
ProbeCenters == {0, 400}
ProbeRadii == {10, 190, 200, 250}

NoProbe ==
  [point |-> 0, center |-> 0, radius_meters |-> 0, done |-> FALSE,
   contains |-> FALSE, is_inside |-> FALSE]

\* ------------------------------------------------------------------ tables
InitGeofences ==
  [g \in GeoIds |->
     IF g = "g1"
     THEN [id |-> "g1", user_id |-> "u1", is_active |-> TRUE,
           latitude |-> 0, radius_meters |-> 200,
           notify_on_enter |-> TRUE, notify_on_exit |-> TRUE,
           trigger_on_dwell |-> TRUE, dwell_time_minutes |-> DwellTimeMinutes,
           valid_from |-> NoTime, valid_until |-> NoTime,
           geofence_type |-> "safe_zone"]
     ELSE IF g = "g2"
     THEN [id |-> "g2", user_id |-> "u1", is_active |-> TRUE,
           latitude |-> 400, radius_meters |-> 200,
           notify_on_enter |-> TRUE, notify_on_exit |-> TRUE,
           trigger_on_dwell |-> FALSE, dwell_time_minutes |-> DwellTimeMinutes,
           valid_from |-> 0, valid_until |-> TickMinutes,
           geofence_type |-> "restricted_zone"]
     ELSE [id |-> "g3", user_id |-> "u2", is_active |-> TRUE,
           latitude |-> 0, radius_meters |-> 200,
           notify_on_enter |-> TRUE, notify_on_exit |-> TRUE,
           trigger_on_dwell |-> FALSE, dwell_time_minutes |-> DwellTimeMinutes,
           valid_from |-> NoTime, valid_until |-> NoTime,
           geofence_type |-> "safe_zone"]]

ActiveGeofencesOfAnyUser(u) ==
  {g \in DOMAIN geofences : geofences[g].is_active}

\* select(Geofence).where(user_id == current_user.id, is_active == True)
ActiveGeofences(u) ==
  {g \in DOMAIN geofences : geofences[g].user_id = u /\ geofences[g].is_active}

OrderingsWithRepeats(S) == [1..Cardinality(S) -> S]

\* The orders in which a query without ORDER BY may return a set of rows.
Orderings(S) ==
  {s \in [1..Cardinality(S) -> S] : \A i, j \in 1..Cardinality(S) : i # j => s[i] # s[j]}

\* Indices of the rows the recent-event query returns for (geofence, user) at
\* time t: created_at >= utcnow() - 5 minutes.
RecentRows(g, u, t) ==
  {i \in DOMAIN db_events :
     /\ db_events[i].geofence_id = g
     /\ db_events[i].user_id = u
     /\ db_events[i].created_at >= t - RecentWindowMinutes}

\* Number of rows of the pair (geofence, user) in the table, whatever their age.
PairCount(g, u) ==
  Cardinality({i \in DOMAIN db_events :
                 db_events[i].geofence_id = g /\ db_events[i].user_id = u})

\* scalar_one_or_none() on a result of at most one row: its event type or None.
RecentType(rows) ==
  IF rows = {} THEN None ELSE db_events[CHOOSE i \in rows : TRUE].event_type

\* The other services' tables before anything is stored, and a consumer
\* that was never created: its task (none, running, cancelled or finished),
\* the await the task is at, the messages delivered to it and not yet
\* yielded by its iterator, the messages passed to the handler, and the
\* positions of the messages for which a handler error was logged.
NoTokens == <<>>
NoContacts == {}
NoConsumer ==
  [task |-> "none", at |-> "iterator", queue |-> <<>>, handled |-> <<>>,
   logged |-> <<>>]

NoCall == [geofence_id |-> 0, is_active |-> FALSE, geofence_count |-> 0]

\* The geofences table of a user who has created InitialGeofenceCount active
\* geofences; only the columns the CRUD handlers' control flow reads.
InitCrudGeofences ==
  [g \in 1..InitialGeofenceCount |-> [id |-> g, user_id |-> "u1", is_active |-> TRUE]]

\* select(func.count(Geofence.id)).where(user_id == ..., is_active == True)
ActiveCount(u) ==
  Cardinality({g \in DOMAIN geofences :
                 geofences[g].user_id = u /\ geofences[g].is_active})

\* ------------------------------------------------------------ the decision
DecideEnterWithoutTrigger(is_inside, geofence, recent) ==
  IF is_inside
  THEN IF recent = None \/ recent = "exit" THEN "enter" ELSE None
  ELSE IF ~is_inside /\ geofence.notify_on_exit
       THEN IF recent = "enter" THEN "exit" ELSE None
       ELSE None

DecideExitWithoutEnter(is_inside, geofence, recent) ==
  IF is_inside /\ geofence.notify_on_enter
  THEN IF recent = None \/ recent = "exit" THEN "enter" ELSE None
  ELSE IF ~is_inside /\ geofence.notify_on_exit
       THEN IF recent # "exit" THEN "exit" ELSE None
       ELSE None

\* router.py lines 386-397: the event to create, or None.
Decide(is_inside, geofence, recent) ==
  IF is_inside /\ geofence.notify_on_enter
  THEN IF recent = None \/ recent = "exit" THEN "enter" ELSE None
  ELSE IF ~is_inside /\ geofence.notify_on_exit
       THEN IF recent = "enter" THEN "exit" ELSE None
       ELSE None

\* KafkaMessage.__init__: str(uuid.uuid4()), an identifier no earlier message
\* carries. The messages on the bus are numbered in publish order.
uuid4 == Len(bus) + 1

\* The row db.commit() inserts for a pending GeofenceEvent: created_at is the
\* server default now(); processed and processing_error keep their defaults.
ToRow(e, t) ==
  [geofence_id |-> e.geofence_id, user_id |-> e.user_id,
   event_type |-> e.event_type, distance_meters |-> e.distance_meters,
   created_at |-> t, processed |-> FALSE, processing_error |-> None]

\* ----------------------------------------------------------------- actions
Init ==
  /\ now = 0
  /\ geofences = InitGeofences
  /\ db_events = <<>>
  /\ bus = <<>>
  /\ pc = [r \in Reqs |-> "idle"]
  /\ user = [r \in Reqs |-> "u1"]
  /\ sample = [r \in Reqs |-> [latitude |-> 0, longitude |-> 0, timestamp |-> 0]]
  /\ zones = [r \in Reqs |-> <<>>]
  /\ idx = [r \in Reqs |-> 1]
  /\ pending = [r \in Reqs |-> <<>>]
  /\ result = [r \in Reqs |-> None]
  /\ error = [r \in Reqs |-> None]
  /\ decided = [r \in Reqs |-> <<>>]
  /\ lastProcessed = [u \in Users |-> -1]
  /\ nreq = 0
  /\ probe = NoProbe
  /\ call = [r \in Reqs |-> NoCall]
  /\ refresh_tokens = NoTokens
  /\ contacts = NoContacts
  /\ consumer = NoConsumer

\* A request arrives: POST /location-update with a validated LocationUpdate.
Begin(r) ==
  /\ pc[r] = "idle"
  /\ nreq < MaxRequests
  /\ \E u \in Users, p \in Positions, lag \in 0..MaxLag :
       /\ now - lag * TickMinutes >= 0
       /\ user' = [user EXCEPT ![r] = u]
       /\ sample' = [sample EXCEPT ![r] = [latitude |-> p, longitude |-> 0,
                                            timestamp |-> now - lag * TickMinutes]]
  /\ pc' = [pc EXCEPT ![r] = "fetch"]
  /\ zones' = [zones EXCEPT ![r] = <<>>]
  /\ idx' = [idx EXCEPT ![r] = 1]
  /\ pending' = [pending EXCEPT ![r] = <<>>]
  /\ result' = [result EXCEPT ![r] = None]
  /\ error' = [error EXCEPT ![r] = None]
  /\ decided' = [decided EXCEPT ![r] = <<>>]
  /\ nreq' = nreq + 1
  /\ UNCHANGED <<now, geofences, db_events, bus, lastProcessed, probe, call, services>>

\* A request arrives with any body. FastAPI builds the LocationUpdate first:
\* a validator that raises ends the request with 422 before update_location
\* runs; otherwise the handler starts as in Begin.
Receive(r) ==
  /\ pc[r] = "idle"
  /\ nreq < MaxRequests
  /\ \E u \in Users, lat \in Latitudes, lon \in Longitudes :
       /\ user' = [user EXCEPT ![r] = u]
       /\ sample' = [sample EXCEPT ![r] = [latitude |-> lat * MetersPerDegree,
                                            longitude |-> lon, timestamp |-> now]]
       /\ IF validate_latitude(lat) /\ validate_longitude(lon)
          THEN /\ pc' = [pc EXCEPT ![r] = "fetch"]
               /\ result' = [result EXCEPT ![r] = None]
          ELSE /\ pc' = [pc EXCEPT ![r] = "idle"]
               /\ result' = [result EXCEPT ![r] = "invalid"]
  /\ zones' = [zones EXCEPT ![r] = <<>>]
  /\ idx' = [idx EXCEPT ![r] = 1]
  /\ pending' = [pending EXCEPT ![r] = <<>>]
  /\ error' = [error EXCEPT ![r] = None]
  /\ decided' = [decided EXCEPT ![r] = <<>>]
  /\ nreq' = nreq + 1
  /\ UNCHANGED <<now, geofences, db_events, bus, lastProcessed, probe, call, services>>

\* router.py lines 357-363: read the user's active geofences.
FetchGeofences(r) ==
  /\ pc[r] = "fetch"
  /\ \E order \in Orderings(ActiveGeofences(user[r])) :
       zones' = [zones EXCEPT ![r] = [i \in DOMAIN order |-> geofences[order[i]]]]
  /\ pc' = [pc EXCEPT ![r] = "eval"]
  /\ UNCHANGED <<now, geofences, db_events, bus, user, sample, idx, pending,
                 result, error, decided, lastProcessed, nreq, probe, call, services>>

\* router.py lines 366-416: one pass of the loop up to db.add(), or the end
\* of the loop.
EvalZone(r) ==
  /\ pc[r] = "eval"
  /\ IF idx[r] > Len(zones[r])
     THEN /\ pc' = [pc EXCEPT ![r] = "commit"]
          /\ UNCHANGED <<idx, pending, error, decided>>
     ELSE LET geofence == zones[r][idx[r]]
              distance == calculate_distance(sample[r].latitude, geofence.latitude)
              is_inside == IsInside(distance, geofence)
              rows == RecentRows(geofence.id, user[r], now)
          IN IF Cardinality(rows) > 1
             THEN \* scalar_one_or_none() raises MultipleResultsFound
                  /\ pc' = [pc EXCEPT ![r] = "rollback"]
                  /\ error' = [error EXCEPT ![r] = "MultipleResultsFound"]
                  /\ UNCHANGED <<idx, pending, decided>>
             ELSE LET event_type == Decide(is_inside, geofence, RecentType(rows))
                  IN IF event_type # None
                     THEN /\ pending' = [pending EXCEPT ![r] = Append(@,
                                [geofence_id |-> geofence.id, user_id |-> user[r],
                                 event_type |-> event_type,
                                 distance_meters |-> distance])]
                          /\ decided' = [decided EXCEPT ![r] = Append(@,
                                [geofence_id |-> geofence.id, event_type |-> event_type,
                                 distance_meters |-> distance,
                                 basis |-> PairCount(geofence.id, user[r]),
                                 ack |-> None, message_id |-> 0,
                                 recorded |-> FALSE])]
                          /\ pc' = [pc EXCEPT ![r] = "publish"]
                          /\ UNCHANGED <<idx, error>>
                     ELSE /\ idx' = [idx EXCEPT ![r] = @ + 1]
                          /\ UNCHANGED <<pc, pending, error, decided>>
  /\ UNCHANGED <<now, geofences, db_events, bus, user, sample, zones, result,
                 lastProcessed, nreq, probe, call, services>>

\* What the publish step does to the request when the producer reports a
\* failure: publish_message logs, returns False, and the caller goes on.
PublishFailureRaises(r) ==
  /\ pc' = [pc EXCEPT ![r] = "rollback"]
  /\ error' = [error EXCEPT ![r] = "PublishFailure"]
  /\ UNCHANGED idx

PublishFailure(r) ==
  /\ pc' = [pc EXCEPT ![r] = "eval"]
  /\ idx' = [idx EXCEPT ![r] = @ + 1]
  /\ UNCHANGED error

\* router.py lines 418-431 with kafka_client.py lines 70-96.
Publish(r) ==
  /\ pc[r] = "publish"
  /\ LET e == pending[r][Len(pending[r])]
         n == Len(decided[r])
     IN \/ /\ bus' = Append(bus, [id |-> uuid4,
                                  event_type |-> e.event_type,
                                  geofence_id |-> e.geofence_id,
                                  user_id |-> e.user_id,
                                  distance_meters |-> e.distance_meters,
                                  timestamp |-> now])
           /\ decided' = [decided EXCEPT ![r][n].ack = "ack",
                                         ![r][n].message_id = uuid4]
           /\ pc' = [pc EXCEPT ![r] = "eval"]
           /\ idx' = [idx EXCEPT ![r] = @ + 1]
           /\ UNCHANGED error
        \/ /\ decided' = [decided EXCEPT ![r][n].ack = "fail"]
           /\ PublishFailure(r)
           /\ UNCHANGED bus
  /\ UNCHANGED <<now, geofences, db_events, user, sample, zones, pending, result,
                 lastProcessed, nreq, probe, call, services>>

\* router.py lines 433-435: db.commit() and the 200 response. The commit
\* flushes the pending inserts; a row whose geofence_id has no row in
\* geofences violates the foreign key of models.py line 126, and the
\* IntegrityError takes the handler to its except clause.
Commit(r) ==
  /\ pc[r] = "commit"
  /\ IF \A i \in DOMAIN pending[r] : pending[r][i].geofence_id \in DOMAIN geofences
     THEN /\ db_events' = db_events \o
                            [i \in DOMAIN pending[r] |-> ToRow(pending[r][i], now)]
          /\ pending' = [pending EXCEPT ![r] = <<>>]
          /\ result' = [result EXCEPT ![r] = "ok"]
          /\ lastProcessed' = [lastProcessed EXCEPT ![user[r]] = sample[r].timestamp]
          /\ pc' = [pc EXCEPT ![r] = "idle"]
          /\ zones' = [zones EXCEPT ![r] = <<>>]
          /\ idx' = [idx EXCEPT ![r] = 1]
          /\ decided' = [decided EXCEPT ![r] =
                           [i \in DOMAIN @ |-> [@[i] EXCEPT !.recorded = TRUE]]]
          /\ UNCHANGED error
     ELSE /\ pc' = [pc EXCEPT ![r] = "rollback"]
          /\ error' = [error EXCEPT ![r] = "IntegrityError"]
          /\ UNCHANGED <<db_events, pending, result, lastProcessed, zones, idx, decided>>
  /\ UNCHANGED <<now, geofences, bus, user, sample, nreq, probe, call, services>>

\* router.py lines 437-442: db.rollback() and the 500 response.
Rollback(r) ==
  /\ pc[r] = "rollback"
  /\ pending' = [pending EXCEPT ![r] = <<>>]
  /\ result' = [result EXCEPT ![r] = "error"]
  /\ pc' = [pc EXCEPT ![r] = "idle"]
  /\ zones' = [zones EXCEPT ![r] = <<>>]
  /\ idx' = [idx EXCEPT ![r] = 1]
  /\ UNCHANGED <<now, geofences, db_events, bus, user, sample, error, decided,
                 lastProcessed, nreq, probe, call, services>>

\* A minute passes.
Tick ==
  /\ now + TickMinutes <= MaxTime
  /\ now' = now + TickMinutes
  /\ UNCHANGED <<geofences, db_events, bus, reqvars, lastProcessed, nreq, probe, call, services>>

Step(r) ==
  \/ Begin(r)
  \/ FetchGeofences(r)
  \/ EvalZone(r)
  \/ Publish(r)
  \/ Commit(r)
  \/ Rollback(r)

\* One request at a time, any time apart.
Next == Step("r1") \/ Tick

Spec == Init /\ [][Next]_vars

\* The same, with the enter notification of geofence g3 switched off.
InitExitOnly ==
  /\ now = 0
  /\ geofences = [InitGeofences EXCEPT !["g3"].notify_on_enter = FALSE]
  /\ db_events = <<>>
  /\ bus = <<>>
  /\ pc = [r \in Reqs |-> "idle"]
  /\ user = [r \in Reqs |-> "u1"]
  /\ sample = [r \in Reqs |-> [latitude |-> 0, longitude |-> 0, timestamp |-> 0]]
  /\ zones = [r \in Reqs |-> <<>>]
  /\ idx = [r \in Reqs |-> 1]
  /\ pending = [r \in Reqs |-> <<>>]
  /\ result = [r \in Reqs |-> None]
  /\ error = [r \in Reqs |-> None]
  /\ decided = [r \in Reqs |-> <<>>]
  /\ lastProcessed = [u \in Users |-> -1]
  /\ nreq = 0
  /\ probe = NoProbe
  /\ call = [r \in Reqs |-> NoCall]
  /\ refresh_tokens = NoTokens
  /\ contacts = NoContacts
  /\ consumer = NoConsumer

SpecExitOnly == InitExitOnly /\ [][Next]_vars

\* Requests overlapping in time, all within one minute.
NextOverlap ==
  \/ \E r \in Reqs : nreq < MaxOverlapRequests /\ Begin(r)
  \/ \E r \in Reqs : FetchGeofences(r)
  \/ \E r \in Reqs : EvalZone(r)
  \/ \E r \in Reqs : Publish(r)
  \/ \E r \in Reqs : Commit(r)
  \/ \E r \in Reqs : Rollback(r)

SpecOverlap == Init /\ [][NextOverlap]_vars

\* Requests with arbitrary bodies, one at a time.
NextValidate ==
  \/ Receive("r1")
  \/ FetchGeofences("r1")
  \/ EvalZone("r1")
  \/ Publish("r1")
  \/ Commit("r1")
  \/ Rollback("r1")
  \/ Tick

SpecValidate == Init /\ [][NextValidate]_vars

\* ------------------------------------------------- geofence CRUD handlers
crudframe == <<now, db_events, bus, sample, zones, idx, pending, decided,
               lastProcessed, probe>>

InitCrud ==
  /\ now = 0
  /\ geofences = InitCrudGeofences
  /\ db_events = <<>>
  /\ bus = <<>>
  /\ pc = [r \in Reqs |-> "idle"]
  /\ user = [r \in Reqs |-> "u1"]
  /\ sample = [r \in Reqs |-> [latitude |-> 0, longitude |-> 0, timestamp |-> 0]]
  /\ zones = [r \in Reqs |-> <<>>]
  /\ idx = [r \in Reqs |-> 1]
  /\ pending = [r \in Reqs |-> <<>>]
  /\ result = [r \in Reqs |-> None]
  /\ error = [r \in Reqs |-> None]
  /\ decided = [r \in Reqs |-> <<>>]
  /\ lastProcessed = [u \in Users |-> -1]
  /\ nreq = 0
  /\ probe = NoProbe
  /\ call = [r \in Reqs |-> NoCall]
  /\ refresh_tokens = NoTokens
  /\ contacts = NoContacts
  /\ consumer = NoConsumer

\* POST /: create_geofence is called with geofence_data.is_active = a. The id
\* is the primary key the insert will assign, distinct from every other id.
BeginCreate(r) ==
  /\ pc[r] = "idle"
  /\ nreq < MaxCrudRequests
  /\ \E u \in Users, a \in BOOLEAN :
       /\ user' = [user EXCEPT ![r] = u]
       /\ call' = [call EXCEPT ![r] = [geofence_id |-> InitialGeofenceCount + nreq + 1,
                                        is_active |-> a, geofence_count |-> 0]]
  /\ pc' = [pc EXCEPT ![r] = "create_count"]
  /\ result' = [result EXCEPT ![r] = None]
  /\ error' = [error EXCEPT ![r] = None]
  /\ nreq' = nreq + 1
  /\ UNCHANGED <<geofences, crudframe, services>>

\* router.py lines 33-45: count the user's active geofences, 400 at the limit.
CreateCount(r) ==
  /\ pc[r] = "create_count"
  /\ call' = [call EXCEPT ![r].geofence_count = ActiveCount(user[r])]
  /\ IF ActiveCount(user[r]) >= MaxActiveGeofences
     THEN /\ pc' = [pc EXCEPT ![r] = "idle"]
          /\ result' = [result EXCEPT ![r] = "rejected"]
     ELSE /\ pc' = [pc EXCEPT ![r] = "create_insert"]
          /\ UNCHANGED result
  /\ UNCHANGED <<geofences, user, error, nreq, crudframe, services>>

\* router.py lines 47-73: after the await of get_location_info, insert the
\* new row and commit.
CreateInsert(r) ==
  /\ pc[r] = "create_insert"
  /\ geofences' =
       [g \in DOMAIN geofences \cup {call[r].geofence_id} |->
          IF g = call[r].geofence_id
          THEN [id |-> g, user_id |-> user[r], is_active |-> call[r].is_active]
          ELSE geofences[g]]
  /\ pc' = [pc EXCEPT ![r] = "idle"]
  /\ result' = [result EXCEPT ![r] = "created"]
  /\ UNCHANGED <<user, error, nreq, call, crudframe, services>>

\* The ids update and delete calls are made for: one of the geofences the
\* user started with (they are alike) and every id issued since.
TargetIds == {1} \cup ((InitialGeofenceCount + 1)..(InitialGeofenceCount + nreq))

\* PUT /{geofence_id} with geofence_data.is_active = a, or DELETE
\* /{geofence_id}.
BeginUpdateOrDelete(r) ==
  /\ pc[r] = "idle"
  /\ nreq < MaxCrudRequests
  /\ \E u \in Users, g \in TargetIds, a \in BOOLEAN,
        op \in {"update_select", "delete_select"} :
       /\ op = "delete_select" => ~a
       /\ user' = [user EXCEPT ![r] = u]
       /\ call' = [call EXCEPT ![r] = [geofence_id |-> g, is_active |-> a,
                                        geofence_count |-> 0]]
       /\ pc' = [pc EXCEPT ![r] = op]
  /\ result' = [result EXCEPT ![r] = None]
  /\ error' = [error EXCEPT ![r] = None]
  /\ nreq' = nreq + 1
  /\ UNCHANGED <<geofences, crudframe, services>>

\* router.py lines 234-247 (update) and 311-324 (delete): load the geofence
\* of this id and user, 404 when there is none.
SelectGeofence(r) ==
  /\ pc[r] \in {"update_select", "delete_select"}
  /\ IF /\ call[r].geofence_id \in DOMAIN geofences
        /\ geofences[call[r].geofence_id].user_id = user[r]
     THEN /\ pc' = [pc EXCEPT ![r] =
                      IF pc[r] = "update_select" THEN "update_commit" ELSE "delete_commit"]
          /\ UNCHANGED result
     ELSE /\ pc' = [pc EXCEPT ![r] = "idle"]
          /\ result' = [result EXCEPT ![r] = "not_found"]
  /\ UNCHANGED <<geofences, user, error, nreq, call, crudframe, services>>

\* router.py lines 249-268: set the fields of the body and commit. No count
\* is taken. When the row has been deleted meanwhile the flush or the refresh
\* raises and the handler answers 500.
UpdateCommit(r) ==
  /\ pc[r] = "update_commit"
  /\ IF call[r].geofence_id \in DOMAIN geofences
     THEN /\ geofences' = [geofences EXCEPT
                             ![call[r].geofence_id].is_active = call[r].is_active]
          /\ result' = [result EXCEPT ![r] = "updated"]
          /\ UNCHANGED error
     ELSE /\ result' = [result EXCEPT ![r] = "error"]
          /\ error' = [error EXCEPT ![r] = "StaleData"]
          /\ UNCHANGED geofences
  /\ pc' = [pc EXCEPT ![r] = "idle"]
  /\ UNCHANGED <<user, nreq, call, crudframe, services>>

\* router.py lines 326-327: delete the row and commit. The events of the
\* geofence go with it (models.py lines 106 and 126: cascade).
DeleteCommit(r) ==
  /\ pc[r] = "delete_commit"
  /\ geofences' = [g \in DOMAIN geofences \ {call[r].geofence_id} |-> geofences[g]]
  /\ db_events' = SelectSeq(db_events, LAMBDA e : e.geofence_id # call[r].geofence_id)
  /\ result' = [result EXCEPT ![r] = "deleted"]
  /\ pc' = [pc EXCEPT ![r] = "idle"]
  /\ UNCHANGED <<now, bus, sample, zones, idx, pending, decided, lastProcessed,
                 probe, user, error, nreq, call, services>>

NextCrud ==
  \/ \E r \in Reqs : BeginCreate(r)
  \/ \E r \in Reqs : CreateCount(r)
  \/ \E r \in Reqs : CreateInsert(r)
  \/ \E r \in Reqs : BeginUpdateOrDelete(r)
  \/ \E r \in Reqs : SelectGeofence(r)
  \/ \E r \in Reqs : UpdateCommit(r)
  \/ \E r \in Reqs : DeleteCommit(r)

SpecCrud == InitCrud /\ [][NextCrud]_vars

\* PUT /{geofence_id} or DELETE /{geofence_id} for one of the geofences the
\* location updates are evaluated against.
BeginEdit(r) ==
  /\ pc[r] = "idle"
  /\ nreq < MaxRequests
  /\ \E u \in Users, g \in GeoIds, a \in BOOLEAN,
        op \in {"update_select", "delete_select"} :
       /\ op = "delete_select" => ~a
       /\ user' = [user EXCEPT ![r] = u]
       /\ call' = [call EXCEPT ![r] = [geofence_id |-> g, is_active |-> a,
                                        geofence_count |-> 0]]
       /\ pc' = [pc EXCEPT ![r] = op]
  /\ result' = [result EXCEPT ![r] = None]
  /\ error' = [error EXCEPT ![r] = None]
  /\ nreq' = nreq + 1
  /\ UNCHANGED <<geofences, crudframe, services>>

\* Location updates handled by one worker while another handles geofence
\* edits, all within one minute.
NextEdit ==
  \/ Step("r1")
  \/ BeginEdit("r2")
  \/ SelectGeofence("r2")
  \/ UpdateCommit("r2")
  \/ DeleteCommit("r2")

SpecEdit == Init /\ [][NextEdit]_vars

\* ------------------------------------------------ geofence shape validation
\* An optional field of a request body: left out, sent as null, or sent with
\* a value. For coordinates the value is the number of vertices.
Shapes == {"circle", "polygon", "rectangle"}
RadiusValues == {0, 10, 500}
VertexCounts == {2, 3, 4, 5}
Optional(values) ==
  {[given |-> "omitted", v |-> 0], [given |-> "null", v |-> 0]}
    \cup {[given |-> "value", v |-> x] : x \in values}

\* The value pydantic hands to the handler: None for a field left out or null.
IsNone(field) == field.given # "value"

\* A field validator runs on the value sent, null included; it does not run
\* on a field that was left out (no always=True).
Validated(field) == field.given # "omitted"

\* schemas.py GeofenceCreate.validate_radius: passes unless it raises.
create_validate_radius(shape, radius_meters) ==
  (Validated(radius_meters) /\ shape = "circle") =>
    /\ ~IsNone(radius_meters)
    /\ 10 <= radius_meters.v /\ radius_meters.v <= 100000

\* schemas.py GeofenceCreate.validate_coordinates (vertex counts).
create_validate_coordinates(shape, coordinates) ==
  (Validated(coordinates) /\ shape \in {"polygon", "rectangle"}) =>
    /\ ~(IsNone(coordinates) \/ coordinates.v < 3)
    /\ ~(shape = "rectangle" /\ coordinates.v # 4)
    /\ ~(coordinates.v > 100)

\* schemas.py GeofenceUpdate.validate_radius.
update_validate_radius(radius_meters) ==
  Validated(radius_meters) =>
    ~(~IsNone(radius_meters) /\ ~(10 <= radius_meters.v /\ radius_meters.v <= 100000))

\* schemas.py GeofenceUpdate.validate_coordinates (vertex counts).
update_validate_coordinates(coordinates) ==
  (Validated(coordinates) /\ ~IsNone(coordinates)) =>
    ~(coordinates.v < 3) /\ ~(coordinates.v > 100)

NoShapeCall ==
  [op |-> None, geofence_id |-> 0, shape |-> "circle",
   radius_meters |-> [given |-> "omitted", v |-> 0],
   coordinates |-> [given |-> "omitted", v |-> 0]]

\* One valid geofence of each shape.
InitShapeGeofences ==
  [g \in 1..3 |->
     [id |-> g, user_id |-> "u1", is_active |-> TRUE,
      shape |-> IF g = 1 THEN "circle" ELSE IF g = 2 THEN "polygon" ELSE "rectangle",
      radius_meters |-> IF g = 1 THEN [given |-> "value", v |-> 500]
                        ELSE [given |-> "null", v |-> 0],
      coordinates |-> IF g = 1 THEN [given |-> "null", v |-> 0]
                      ELSE [given |-> "value", v |-> g + 1]]]

InitShape ==
  /\ now = 0
  /\ geofences = InitShapeGeofences
  /\ db_events = <<>>
  /\ bus = <<>>
  /\ pc = [r \in Reqs |-> "idle"]
  /\ user = [r \in Reqs |-> "u1"]
  /\ sample = [r \in Reqs |-> [latitude |-> 0, longitude |-> 0, timestamp |-> 0]]
  /\ zones = [r \in Reqs |-> <<>>]
  /\ idx = [r \in Reqs |-> 1]
  /\ pending = [r \in Reqs |-> <<>>]
  /\ result = [r \in Reqs |-> None]
  /\ error = [r \in Reqs |-> None]
  /\ decided = [r \in Reqs |-> <<>>]
  /\ lastProcessed = [u \in Users |-> -1]
  /\ nreq = 0
  /\ probe = NoProbe
  /\ call = [r \in Reqs |-> NoShapeCall]
  /\ refresh_tokens = NoTokens
  /\ contacts = NoContacts
  /\ consumer = NoConsumer

\* POST / with a body of any shape data: the GeofenceCreate validators, then
\* the insert of create_geofence.
CreateShape(r) ==
  /\ pc[r] = "idle"
  /\ nreq < MaxShapeRequests
  /\ \E sh \in Shapes, rad \in Optional(RadiusValues), co \in Optional(VertexCounts) :
       LET id == Cardinality(DOMAIN InitShapeGeofences) + nreq + 1
       IN /\ call' = [call EXCEPT ![r] = [op |-> "create", geofence_id |-> id, shape |-> sh,
                                           radius_meters |-> rad, coordinates |-> co]]
          /\ IF create_validate_radius(sh, rad) /\ create_validate_coordinates(sh, co)
             THEN /\ geofences' =
                       [g \in DOMAIN geofences \cup {id} |->
                          IF g = id
                          THEN [id |-> id, user_id |-> user[r], is_active |-> TRUE,
                                shape |-> sh,
                                radius_meters |-> [rad EXCEPT !.given =
                                                     IF IsNone(rad) THEN "null" ELSE "value"],
                                coordinates |-> [co EXCEPT !.given =
                                                   IF IsNone(co) THEN "null" ELSE "value"]]
                          ELSE geofences[g]]
                  /\ result' = [result EXCEPT ![r] = "created"]
             ELSE /\ result' = [result EXCEPT ![r] = "invalid"]
                  /\ UNCHANGED geofences
  /\ nreq' = nreq + 1
  /\ UNCHANGED <<pc, user, error, crudframe, services>>

\* PUT /{geofence_id} with shape data: the GeofenceUpdate validators, then
\* the field updates of update_geofence, which copy radius_meters when it is
\* not None and never read coordinates.
UpdateShape(r) ==
  /\ pc[r] = "idle"
  /\ nreq < MaxShapeRequests
  /\ \E g \in DOMAIN geofences, rad \in Optional(RadiusValues),
        co \in Optional(VertexCounts) :
       /\ call' = [call EXCEPT ![r] = [op |-> "update", geofence_id |-> g,
                                        shape |-> geofences[g].shape,
                                        radius_meters |-> rad, coordinates |-> co]]
       /\ IF update_validate_radius(rad) /\ update_validate_coordinates(co)
          THEN /\ geofences' = [geofences EXCEPT ![g].radius_meters =
                                  IF IsNone(rad) THEN @ ELSE rad]
               /\ result' = [result EXCEPT ![r] = "updated"]
          ELSE /\ result' = [result EXCEPT ![r] = "invalid"]
               /\ UNCHANGED geofences
  /\ nreq' = nreq + 1
  /\ UNCHANGED <<pc, user, error, crudframe, services>>

NextShape == CreateShape("r1") \/ UpdateShape("r1")

SpecShape == InitShape /\ [][NextShape]_vars

\* The circle test on its own: any point, centre and radius, tested once by
\* is_point_in_circle and once by the expression of the location-update path.
InitCircle ==
  /\ now = 0
  /\ geofences = InitGeofences
  /\ db_events = <<>>
  /\ bus = <<>>
  /\ pc = [r \in Reqs |-> "idle"]
  /\ user = [r \in Reqs |-> "u1"]
  /\ sample = [r \in Reqs |-> [latitude |-> 0, longitude |-> 0, timestamp |-> 0]]
  /\ zones = [r \in Reqs |-> <<>>]
  /\ idx = [r \in Reqs |-> 1]
  /\ pending = [r \in Reqs |-> <<>>]
  /\ result = [r \in Reqs |-> None]
  /\ error = [r \in Reqs |-> None]
  /\ decided = [r \in Reqs |-> <<>>]
  /\ lastProcessed = [u \in Users |-> -1]
  /\ nreq = 0
  /\ call = [r \in Reqs |-> NoCall]
  /\ refresh_tokens = NoTokens
  /\ contacts = NoContacts
  /\ consumer = NoConsumer
  /\ \E p \in ProbePoints, c \in ProbeCenters, rad \in ProbeRadii :
       probe = [NoProbe EXCEPT !.point = p, !.center = c, !.radius_meters = rad]

Contains ==
  /\ ~probe.done
  /\ probe' = [probe EXCEPT
        !.done = TRUE,
        !.contains = is_point_in_circle(probe.point, probe.center, probe.radius_meters),
        !.is_inside = IsInside(calculate_distance(probe.point, probe.center),
                               [radius_meters |-> probe.radius_meters])]
  /\ UNCHANGED <<now, geofences, db_events, bus, reqvars, lastProcessed, nreq, call, services>>

NextCircle == Contains

SpecCircle == InitCircle /\ [][NextCircle]_vars

\* ------------------------------------------------- refresh tokens (auth)

\* Everything the auth handlers leave alone.
authframe ==
  <<geofences, db_events, bus, user, sample, zones, idx, pending, decided,
    lastProcessed, probe, contacts, consumer>>

MinutesPerDay == 1440

\* User.is_active is false for the users in this set.
InactiveUsers == {"u2"}

\* What datetime.tzinfo can be on an expires_at value loaded from the
\* DateTime(timezone=True) column: absent (a naive datetime) or UTC (an aware
\* one). Which one the driver returns is fixed per deployment.
TzInfos == {None, "utc"}

\* The refresh_tokens table as a sequence: the token string of a row is its
\* index (create_refresh_token is a fresh uuid4 per row), 0 is a string that
\* was never issued. refreshes is a ghost field: the number of refresh calls
\* that succeeded with the row's token.
InitTokens(tz) ==
  << [user_id |-> "u1", expires_at |-> [t |-> TickMinutes, tzinfo |-> tz],
      is_revoked |-> FALSE, refreshes |-> 0],
     [user_id |-> "u1", expires_at |-> [t |-> REFRESH_TOKEN_EXPIRE_DAYS * MinutesPerDay, tzinfo |-> tz],
      is_revoked |-> FALSE, refreshes |-> 0],
     [user_id |-> "u2", expires_at |-> [t |-> REFRESH_TOKEN_EXPIRE_DAYS * MinutesPerDay, tzinfo |-> tz],
      is_revoked |-> FALSE, refreshes |-> 0] >>

NoAuthCall == [op |-> None, token |-> 0]

\* datetime.utcnow() > self.expires_at raises TypeError when expires_at is an
\* aware datetime: utcnow() is naive.
is_expired_raises(token_record) == token_record.expires_at.tzinfo # None

is_expired(token_record) == now > token_record.expires_at.t

is_valid_ignoring_revocation(token_record) == ~is_expired(token_record)

is_valid(token_record) ==
  ~is_expired(token_record) /\ ~token_record.is_revoked

InitAuth ==
  /\ now = 0
  /\ geofences = InitGeofences
  /\ db_events = <<>>
  /\ bus = <<>>
  /\ pc = [r \in Reqs |-> "idle"]
  /\ user = [r \in Reqs |-> "u1"]
  /\ sample = [r \in Reqs |-> [latitude |-> 0, longitude |-> 0, timestamp |-> 0]]
  /\ zones = [r \in Reqs |-> <<>>]
  /\ idx = [r \in Reqs |-> 1]
  /\ pending = [r \in Reqs |-> <<>>]
  /\ result = [r \in Reqs |-> None]
  /\ error = [r \in Reqs |-> None]
  /\ decided = [r \in Reqs |-> <<>>]
  /\ lastProcessed = [u \in Users |-> -1]
  /\ nreq = 0
  /\ probe = NoProbe
  /\ call = [r \in Reqs |-> NoAuthCall]
  /\ \E tz \in TzInfos : refresh_tokens = InitTokens(tz)
  /\ contacts = NoContacts
  /\ consumer = NoConsumer

\* A POST /refresh or POST /logout arrives with some token string and waits
\* for the event loop to run its handler.
ReceiveAuth(r) ==
  /\ pc[r] \in {"idle", "done"}
  /\ nreq < MaxAuthRequests
  /\ \E op \in {"refresh", "logout"}, tok \in 0..Len(refresh_tokens) :
       call' = [call EXCEPT ![r] = [op |-> op, token |-> tok]]
  /\ pc' = [pc EXCEPT ![r] = "received"]
  /\ result' = [result EXCEPT ![r] = None]
  /\ error' = [error EXCEPT ![r] = None]
  /\ nreq' = nreq + 1
  /\ UNCHANGED <<now, refresh_tokens, authframe>>

\* refresh_token: an async def without an await, run by the one event loop
\* of the one server process from its first line to its return.
RefreshToken(r) ==
  /\ pc[r] = "received"
  /\ call[r].op = "refresh"
  /\ LET tok == call[r].token
         found == tok \in DOMAIN refresh_tokens
         token_record == refresh_tokens[tok]
     IN IF found /\ is_expired_raises(token_record)
        THEN /\ result' = [result EXCEPT ![r] = "500"]
             /\ error' = [error EXCEPT ![r] = "TypeError"]
             /\ UNCHANGED refresh_tokens
        ELSE IF ~found \/ ~is_valid(token_record)
        THEN /\ result' = [result EXCEPT ![r] = "401"]
             /\ error' = [error EXCEPT ![r] = "Invalid or expired refresh token"]
             /\ UNCHANGED refresh_tokens
        ELSE IF token_record.user_id \in InactiveUsers
        THEN /\ result' = [result EXCEPT ![r] = "401"]
             /\ error' = [error EXCEPT ![r] = "User not found or inactive"]
             /\ UNCHANGED refresh_tokens
        ELSE /\ refresh_tokens' =
                  Append([refresh_tokens EXCEPT ![tok].is_revoked = TRUE,
                                                ![tok].refreshes = @ + 1],
                         [user_id |-> token_record.user_id,
                          expires_at |->
                            [t |-> now + REFRESH_TOKEN_EXPIRE_DAYS * MinutesPerDay,
                             tzinfo |-> token_record.expires_at.tzinfo],
                          is_revoked |-> FALSE,
                          refreshes |-> 0])
             /\ result' = [result EXCEPT ![r] = "refreshed"]
             /\ UNCHANGED error
  /\ pc' = [pc EXCEPT ![r] = "done"]
  /\ UNCHANGED <<now, nreq, call, authframe>>

\* logout: revokes the row of the token if there is one.
Logout(r) ==
  /\ pc[r] = "received"
  /\ call[r].op = "logout"
  /\ LET tok == call[r].token
     IN IF tok \in DOMAIN refresh_tokens
        THEN refresh_tokens' = [refresh_tokens EXCEPT ![tok].is_revoked = TRUE]
        ELSE UNCHANGED refresh_tokens
  /\ result' = [result EXCEPT ![r] = "logged_out"]
  /\ pc' = [pc EXCEPT ![r] = "done"]
  /\ UNCHANGED <<now, error, nreq, call, authframe>>

NextAuth ==
  \/ \E r \in Reqs : ReceiveAuth(r) \/ RefreshToken(r) \/ Logout(r)
  \/ Tick

SpecAuth == InitAuth /\ [][NextAuth]_vars

\* ------------------------------------------- emergency contacts (user service)

\* Everything the emergency-contact handlers leave alone.
contactframe ==
  <<now, geofences, db_events, bus, sample, zones, idx, pending, decided,
    lastProcessed, probe, refresh_tokens, consumer>>

\* The emergency_contacts table as a set of rows, of which the model keeps
\* the key, the owner and is_primary. User u1 has a primary and a second
\* contact, user u2 has none.
InitContacts ==
  { [id |-> 1, user_id |-> "u1", is_primary |-> TRUE],
    [id |-> 2, user_id |-> "u1", is_primary |-> FALSE] }

\* Arguments and locals of one emergency-contact call. is_primary of an update
\* is Optional: given says whether the body carries it. loaded is
\* contact.is_primary as the SELECT returned it; targets are the rows the
\* UPDATE ... SET is_primary = false statement saw when it started; locked are
\* the rows it has written and whose row locks the transaction holds until it
\* ends.
NoContactCall ==
  [op |-> None, contact_id |-> 0, given |-> FALSE, is_primary |-> FALSE,
   loaded |-> FALSE, targets |-> {}, locked |-> {}]

ContactsOf(u) == {c \in contacts : c.user_id = u}

ContactIdsOf(u) == {c.id : c \in ContactsOf(u)}

\* Rows written and not yet committed by the transactions of other requests.
LockedByOthers(r) == UNION {call[o].locked : o \in Reqs \ {r}}

\* The table after is_primary = v was written to the rows ids.
SetPrimary(rows, ids, v) ==
  {IF c.id \in ids THEN [c EXCEPT !.is_primary = v] ELSE c : c \in rows}

InitContactsSpec ==
  /\ now = 0
  /\ geofences = InitGeofences
  /\ db_events = <<>>
  /\ bus = <<>>
  /\ pc = [r \in Reqs |-> "idle"]
  /\ user = [r \in Reqs |-> "u1"]
  /\ sample = [r \in Reqs |-> [latitude |-> 0, longitude |-> 0, timestamp |-> 0]]
  /\ zones = [r \in Reqs |-> <<>>]
  /\ idx = [r \in Reqs |-> 1]
  /\ pending = [r \in Reqs |-> <<>>]
  /\ result = [r \in Reqs |-> None]
  /\ error = [r \in Reqs |-> None]
  /\ decided = [r \in Reqs |-> <<>>]
  /\ lastProcessed = [u \in Users |-> -1]
  /\ nreq = 0
  /\ probe = NoProbe
  /\ call = [r \in Reqs |-> NoContactCall]
  /\ refresh_tokens = NoTokens
  /\ contacts = InitContacts
  /\ consumer = NoConsumer

\* A POST, PUT or DELETE on /emergency-contacts arrives for some user. The id
\* of a new contact is a fresh uuid4; an update or a delete names any id.
BeginContact(r) ==
  /\ pc[r] \in {"idle", "done"}
  /\ nreq < MaxContactRequests
  /\ \E u \in Users, op \in {"create", "update", "delete"},
        id \in 1..(Cardinality(InitContacts) + nreq), g \in BOOLEAN, p \in BOOLEAN :
       /\ op = "create" => (g /\ id = 1)
       /\ op = "delete" => (~g /\ ~p)
       /\ ~g => ~p
       /\ user' = [user EXCEPT ![r] = u]
       /\ call' = [call EXCEPT ![r] =
                     [NoContactCall EXCEPT
                        !.op = op,
                        !.contact_id = IF op = "create"
                                       THEN Cardinality(InitContacts) + nreq + 1
                                       ELSE id,
                        !.given = g,
                        !.is_primary = p]]
       /\ pc' = [pc EXCEPT ![r] = IF op = "create" THEN "count" ELSE "select"]
  /\ result' = [result EXCEPT ![r] = None]
  /\ error' = [error EXCEPT ![r] = None]
  /\ nreq' = nreq + 1
  /\ UNCHANGED <<contacts, contactframe>>

\* create_emergency_contact up to the count: the limit of five contacts.
CountContacts(r) ==
  /\ pc[r] = "count"
  /\ IF Cardinality(ContactsOf(user[r])) >= MaxEmergencyContacts
     THEN /\ pc' = [pc EXCEPT ![r] = "done"]
          /\ result' = [result EXCEPT ![r] = "400"]
     ELSE /\ pc' = [pc EXCEPT ![r] = IF call[r].is_primary THEN "unset" ELSE "insert"]
          /\ UNCHANGED result
  /\ UNCHANGED <<user, error, nreq, call, contacts, contactframe>>

\* update_emergency_contact and delete_emergency_contact up to the SELECT of
\* the contact: 404 when the user has no such contact.
SelectContact(r) ==
  /\ pc[r] = "select"
  /\ LET id == call[r].contact_id
     IN IF id \notin ContactIdsOf(user[r])
        THEN /\ pc' = [pc EXCEPT ![r] = "done"]
             /\ result' = [result EXCEPT ![r] = "404"]
             /\ UNCHANGED call
        ELSE LET contact == CHOOSE c \in contacts : c.id = id
             IN /\ call' = [call EXCEPT ![r].loaded = contact.is_primary]
                /\ pc' = [pc EXCEPT ![r] =
                            IF call[r].op = "delete" THEN "delete"
                            ELSE IF call[r].is_primary /\ ~contact.is_primary
                                 THEN "unset"
                                 ELSE "flush"]
                /\ UNCHANGED result
  /\ UNCHANGED <<user, error, nreq, contacts, contactframe>>

\* The UPDATE ... SET is_primary = false statement starts: it works on the
\* rows of the user that are committed now (all of them in a create, all but
\* contact_id in an update).
UnsetStart(r) ==
  /\ pc[r] = "unset"
  /\ call' = [call EXCEPT ![r].targets =
                IF call[r].op = "create"
                THEN ContactIdsOf(user[r])
                ELSE ContactIdsOf(user[r]) \ {call[r].contact_id}]
  /\ pc' = [pc EXCEPT ![r] = "unset_wait"]
  /\ UNCHANGED <<user, result, error, nreq, contacts, contactframe>>

\* The statement ends once no other transaction holds a lock on one of its
\* rows: the rows that still exist are written and stay locked.
UnsetFinish(r) ==
  /\ pc[r] = "unset_wait"
  /\ call[r].targets \cap LockedByOthers(r) = {}
  /\ call' = [call EXCEPT ![r].locked = call[r].targets \cap ContactIdsOf(user[r])]
  /\ pc' = [pc EXCEPT ![r] = IF call[r].op = "create" THEN "insert" ELSE "flush"]
  /\ UNCHANGED <<user, result, error, nreq, contacts, contactframe>>

\* create_emergency_contact: db.add(new_contact) and the commit.
InsertContact(r) ==
  /\ pc[r] = "insert"
  /\ contacts' =
       SetPrimary(contacts, call[r].locked, FALSE)
         \cup {[id |-> call[r].contact_id, user_id |-> user[r],
                is_primary |-> call[r].is_primary]}
  /\ call' = [call EXCEPT ![r].locked = {}]
  /\ pc' = [pc EXCEPT ![r] = "done"]
  /\ result' = [result EXCEPT ![r] = "created"]
  /\ UNCHANGED <<user, error, nreq, contactframe>>

\* The contact row has to be written: is_primary is given and differs from
\* the loaded value.
WritesContact(r) == call[r].given /\ call[r].is_primary # call[r].loaded

\* update_emergency_contact: the assignments and the commit. The flush writes
\* the contact row when it changed, after waiting for its row lock; a row
\* that is gone by then makes the flush raise, and the handler rolls back.
FlushContact(r) ==
  /\ pc[r] = "flush"
  /\ LET id == call[r].contact_id
     IN IF ~WritesContact(r)
        THEN /\ contacts' = SetPrimary(contacts, call[r].locked, FALSE)
             /\ result' = [result EXCEPT ![r] = "updated"]
             /\ UNCHANGED error
        ELSE /\ id \notin LockedByOthers(r)
             /\ IF id \in ContactIdsOf(user[r])
                THEN /\ contacts' =
                          SetPrimary(SetPrimary(contacts, call[r].locked, FALSE),
                                     {id}, call[r].is_primary)
                     /\ result' = [result EXCEPT ![r] = "updated"]
                     /\ UNCHANGED error
                ELSE /\ result' = [result EXCEPT ![r] = "500"]
                     /\ error' = [error EXCEPT ![r] = "StaleDataError"]
                     /\ UNCHANGED contacts
  /\ call' = [call EXCEPT ![r].locked = {}]
  /\ pc' = [pc EXCEPT ![r] = "done"]
  /\ UNCHANGED <<user, nreq, contactframe>>

\* Two updates each hold the row the other has to write: the database ends
\* one of them with a deadlock error, and its handler rolls back.
DeadlockContact(r) ==
  /\ pc[r] = "flush"
  /\ WritesContact(r)
  /\ \E o \in Reqs \ {r} :
       /\ pc[o] = "flush"
       /\ WritesContact(o)
       /\ call[r].contact_id \in call[o].locked
       /\ call[o].contact_id \in call[r].locked
  /\ call' = [call EXCEPT ![r].locked = {}]
  /\ pc' = [pc EXCEPT ![r] = "done"]
  /\ result' = [result EXCEPT ![r] = "500"]
  /\ error' = [error EXCEPT ![r] = "DeadlockDetected"]
  /\ UNCHANGED <<user, nreq, contacts, contactframe>>

\* delete_emergency_contact: db.delete(contact) and the commit.
DeleteContact(r) ==
  /\ pc[r] = "delete"
  /\ call[r].contact_id \notin LockedByOthers(r)
  /\ contacts' = {c \in contacts : c.id # call[r].contact_id}
  /\ pc' = [pc EXCEPT ![r] = "done"]
  /\ result' = [result EXCEPT ![r] = "deleted"]
  /\ UNCHANGED <<user, error, nreq, call, contactframe>>

ContactStep(r) ==
  \/ BeginContact(r)
  \/ CountContacts(r)
  \/ SelectContact(r)
  \/ UnsetStart(r)
  \/ UnsetFinish(r)
  \/ InsertContact(r)
  \/ FlushContact(r)
  \/ DeadlockContact(r)
  \/ DeleteContact(r)

NextContacts == \E r \in Reqs : ContactStep(r)

SpecContacts == InitContactsSpec /\ [][NextContacts]_vars

\* One request at a time: a call starts only when no other is in progress.
NextContactsSequential ==
  \E r \in Reqs :
    /\ \A o \in Reqs \ {r} : pc[o] \in {"idle", "done"}
    /\ ContactStep(r)

SpecContactsSequential == InitContactsSpec /\ [][NextContactsSequential]_vars

\* ------------------------------------------------------- the Kafka consumer

\* Everything the consumer leaves alone.
consumerframe ==
  <<now, geofences, db_events, bus, reqvars, lastProcessed, nreq, probe, call,
    refresh_tokens, contacts>>

\* What awaiting the handler does with a message: it returns, or it raises
\* an Exception.
HandlerOutcomes == {"returns", "raises"}

\* The messages the broker delivers to the consumer, in order, each named by
\* what the handler does with it: any sequence of at most MaxMessages.
MessageQueues ==
  UNION {[1..n -> HandlerOutcomes] : n \in 0..MaxMessages}

\* A loop without the inner try: the exception of the handler ends the loop,
\* logged by the outer except.
after_handler_error_propagates(c) ==
  [c EXCEPT !.logged = Append(@, Len(c.handled)), !.task = "finished"]

\* _consume_messages when awaiting the handler raised an Exception: the
\* inner except logs the error and the loop goes back to the iterator.
after_handler_error(c) ==
  [c EXCEPT !.logged = Append(@, Len(c.handled)), !.at = "iterator"]

InitConsumer ==
  /\ now = 0
  /\ geofences = InitGeofences
  /\ db_events = <<>>
  /\ bus = <<>>
  /\ pc = [r \in Reqs |-> "idle"]
  /\ user = [r \in Reqs |-> "u1"]
  /\ sample = [r \in Reqs |-> [latitude |-> 0, longitude |-> 0, timestamp |-> 0]]
  /\ zones = [r \in Reqs |-> <<>>]
  /\ idx = [r \in Reqs |-> 1]
  /\ pending = [r \in Reqs |-> <<>>]
  /\ result = [r \in Reqs |-> None]
  /\ error = [r \in Reqs |-> None]
  /\ decided = [r \in Reqs |-> <<>>]
  /\ lastProcessed = [u \in Users |-> -1]
  /\ nreq = 0
  /\ probe = NoProbe
  /\ call = [r \in Reqs |-> NoCall]
  /\ refresh_tokens = NoTokens
  /\ contacts = NoContacts
  /\ \E q \in MessageQueues : consumer = [NoConsumer EXCEPT !.queue = q]

\* create_consumer: the consumer is started and its task created.
CreateConsumer ==
  /\ consumer.task = "none"
  /\ consumer' = [consumer EXCEPT !.task = "running"]
  /\ UNCHANGED consumerframe

\* async for message in consumer: the iterator yields the next message and
\* the loop calls handler(message.value).
CallHandler ==
  /\ consumer.task = "running"
  /\ consumer.at = "iterator"
  /\ consumer.queue # <<>>
  /\ consumer' = [consumer EXCEPT !.queue = Tail(@),
                                  !.handled = Append(@, Head(consumer.queue)),
                                  !.at = "handler"]
  /\ UNCHANGED consumerframe

\* await handler(message.value) ends.
HandlerEnds ==
  /\ consumer.task = "running"
  /\ consumer.at = "handler"
  /\ consumer' =
       IF consumer.handled[Len(consumer.handled)] = "raises"
       THEN after_handler_error(consumer)
       ELSE [consumer EXCEPT !.at = "iterator"]
  /\ UNCHANGED consumerframe

\* stop_consumer: the task is cancelled at the await it is in, and the
\* consumer stopped.
StopConsumer ==
  /\ consumer.task = "running"
  /\ consumer' = [consumer EXCEPT !.task = "cancelled"]
  /\ UNCHANGED consumerframe

ConsumeStep == CallHandler \/ HandlerEnds

NextConsumer == CreateConsumer \/ ConsumeStep \/ StopConsumer

\* The event loop runs a task that is ready.
SpecConsumer ==
  InitConsumer /\ [][NextConsumer]_vars /\ WF_vars(ConsumeStep)

\* ------------------------------------------------------------------ claims
\* Rows of one (geofence, user) pair, in commit order.
PairEvents(g, u) ==
  SelectSeq(db_events, LAMBDA e : e.geofence_id = g /\ e.user_id = u)

\* The positions of a request's handler between its first await and its end.
InFlight(r) == pc[r] # "idle"

\* A finished request: its response has been sent.
Finished(r) == pc[r] = "idle" /\ result[r] # None

\* The table holds a row for the i-th transition request r decided.
RowRecorded(r, i) ==
  \E k \in DOMAIN db_events :
    /\ db_events[k].geofence_id = decided[r][i].geofence_id
    /\ db_events[k].user_id = user[r]
    /\ db_events[k].event_type = decided[r][i].event_type
    /\ db_events[k].distance_meters = decided[r][i].distance_meters

\* C1: for every (user, geofence) pair the recorded ENTER and EXIT events
\* alternate strictly, starting with ENTER, however far apart in time the
\* samples are processed (requests handled one at a time).
C1_EnterExitAlternate ==
  \A g \in GeoIds, u \in Users :
    LET s == PairEvents(g, u)
    IN \A i \in DOMAIN s :
         s[i].event_type = IF i % 2 = 1 THEN "enter" ELSE "exit"

\* C2: hysteresis. An EXIT is emitted only for a sample farther from the
\* centre than radius + buffer; a sample with radius < d <= radius + buffer
\* emits no EXIT.
C2_NoExitInsideBuffer ==
  \A r \in Reqs : \A i \in DOMAIN pending[r] :
    pending[r][i].event_type = "exit" =>
      pending[r][i].distance_meters >
        geofences[pending[r][i].geofence_id].radius_meters + GEOFENCE_BUFFER_DISTANCE

\* C3: dwell. When every zone of a sample has been evaluated, a zone with the
\* dwell trigger whose current episode began with an ENTER at least the dwell
\* threshold before the sample's timestamp, and that contains the sample, has
\* a DWELL event for that episode, recorded earlier or emitted by this sample.
C3_DwellEmitted ==
  \A r \in Reqs :
    pc[r] = "commit" =>
      \A z \in DOMAIN zones[r] :
        LET geofence == zones[r][z]
            s == PairEvents(geofence.id, user[r])
        IN (/\ geofence.trigger_on_dwell
            /\ IsInside(calculate_distance(sample[r].latitude, geofence.latitude), geofence)
            /\ \E k \in DOMAIN s :
                 /\ s[k].event_type = "enter"
                 /\ \A m \in (k + 1)..Len(s) : s[m].event_type # "exit"
                 /\ sample[r].timestamp - s[k].created_at >= geofence.dwell_time_minutes)
           => \/ \E k \in DOMAIN s : s[k].event_type = "dwell"
              \/ \E i \in DOMAIN pending[r] :
                   /\ pending[r][i].geofence_id = geofence.id
                   /\ pending[r][i].event_type = "dwell"

\* C4: a sample whose timestamp is earlier than that of the last sample
\* processed for its user is discarded: the request decides no event and has
\* nothing to write.
C4_StaleSampleDiscarded ==
  \A r \in Reqs :
    (InFlight(r) /\ sample[r].timestamp < lastProcessed[user[r]]) =>
      (pending[r] = <<>> /\ decided[r] = <<>>)

\* C5: two requests of one user that decided a transition of the same geofence
\* from the same history of the pair (neither saw the other's event) do not
\* both record their transition.
C5_ConcurrentSingleTransition ==
  \A r1, r2 \in Reqs :
    (r1 # r2 /\ user[r1] = user[r2]) =>
      \A i \in DOMAIN decided[r1], j \in DOMAIN decided[r2] :
        (/\ decided[r1][i].geofence_id = decided[r2][j].geofence_id
         /\ decided[r1][i].basis = decided[r2][j].basis)
        => ~(decided[r1][i].recorded /\ decided[r2][j].recorded)

\* C6: per-zone isolation. Whatever error another zone of the same sample
\* raised, every event a finished request decided is recorded.
C6_ZoneErrorIsolated ==
  \A r \in Reqs :
    Finished(r) =>
      \A i \in DOMAIN decided[r] : decided[r][i].recorded /\ RowRecorded(r, i)

\* C7: a publish failure does not undo the transition. No request ends because
\* a publish failed, and a transition whose publish failed stays in the
\* request's session until the commit and is a row of the table once the
\* request has finished, unless an error of another zone ended the request.
C7_PublishFailureKeepsTransition ==
  \A r \in Reqs :
    /\ error[r] # "PublishFailure"
    /\ \A i \in DOMAIN decided[r] :
         (decided[r][i].ack = "fail" /\ error[r] = None) =>
           IF InFlight(r)
           THEN /\ i \in DOMAIN pending[r]
                /\ pending[r][i].geofence_id = decided[r][i].geofence_id
                /\ pending[r][i].event_type = decided[r][i].event_type
           ELSE /\ result[r] = "ok"
                /\ decided[r][i].recorded
                /\ RowRecorded(r, i)

\* A request finished with success after one of its publishes failed, and the
\* transition is a row of the table.
C7_Witness ==
  \E r \in Reqs :
    /\ Finished(r)
    /\ result[r] = "ok"
    /\ \E i \in DOMAIN decided[r] :
         decided[r][i].ack = "fail" /\ decided[r][i].recorded /\ RowRecorded(r, i)

\* C8: an event whose publish failed reaches a terminal status. Once no
\* handler is running (the code has no other task that publishes), every
\* recorded event is either acknowledged by the bus or marked failed in its row.
C8_FailedPublishReachesTerminalStatus ==
  (\A r \in Reqs : pc[r] = "idle") =>
    \A r \in Reqs : \A i \in DOMAIN decided[r] :
      decided[r][i].recorded =>
        \/ decided[r][i].ack = "ack"
        \/ \E k \in DOMAIN db_events :
             /\ db_events[k].geofence_id = decided[r][i].geofence_id
             /\ db_events[k].event_type = decided[r][i].event_type
             /\ (db_events[k].processed \/ db_events[k].processing_error # None)

\* C10: circle containment is inclusive at the boundary, and the
\* location-update path computes the same answer.
C10_CircleInclusive ==
  probe.done =>
    LET d == calculate_distance(probe.center, probe.point)
    IN /\ (d < probe.radius_meters => probe.contains)
       /\ (d = probe.radius_meters => probe.contains)
       /\ (d > probe.radius_meters => ~probe.contains)
       /\ probe.is_inside = probe.contains

\* A point exactly on the boundary has been tested and found inside.
C10_Witness ==
  /\ probe.done
  /\ calculate_distance(probe.center, probe.point) = probe.radius_meters
  /\ probe.contains
  /\ probe.is_inside

\* C11: a request evaluates, and writes or publishes events for, only the
\* geofences of its own user, however the requests of different users
\* interleave: every geofence a request has read, every event in a session,
\* every row of the table and every message on the bus pairs a geofence with
\* its owner.
C11_OnlyOwnGeofences ==
  /\ \A r \in Reqs :
       /\ \A z \in DOMAIN zones[r] : zones[r][z].user_id = user[r]
       /\ \A i \in DOMAIN pending[r] :
            /\ pending[r][i].user_id = user[r]
            /\ geofences[pending[r][i].geofence_id].user_id = user[r]
  /\ \A k \in DOMAIN db_events :
       geofences[db_events[k].geofence_id].user_id = db_events[k].user_id
  /\ \A k \in DOMAIN bus :
       geofences[bus[k].geofence_id].user_id = bus[k].user_id

\* Requests of two users are in flight together, each past its geofence query
\* with zones to evaluate, and one of them has an event in its session.
C11_Witness ==
  \E r1, r2 \in Reqs :
    /\ user[r1] # user[r2]
    /\ InFlight(r1) /\ InFlight(r2)
    /\ zones[r1] # <<>> /\ zones[r2] # <<>>
    /\ pending[r1] # <<>>
    /\ \E k \in DOMAIN db_events : db_events[k].user_id = user[r2]

\* C12: the identifier of a published event is a function of (geofence_id,
\* user_id, event_type, since): two acknowledged publishes of the same
\* transition of the same episode (same geofence, user, event type and
\* sample timestamp) carry the same identifier.
C12_DeterministicEventId ==
  \A r1, r2 \in Reqs :
    \A i \in DOMAIN decided[r1], j \in DOMAIN decided[r2] :
      (/\ decided[r1][i].ack = "ack" /\ decided[r2][j].ack = "ack"
       /\ user[r1] = user[r2]
       /\ decided[r1][i].geofence_id = decided[r2][j].geofence_id
       /\ decided[r1][i].event_type = decided[r2][j].event_type
       /\ sample[r1].timestamp = sample[r2].timestamp)
      => decided[r1][i].message_id = decided[r2][j].message_id

\* A sample whose latitude or longitude is outside the valid range.
OutOfRange(s) ==
  \/ s.latitude < -90 * MetersPerDegree \/ s.latitude > 90 * MetersPerDegree
  \/ s.longitude < -180 \/ s.longitude > 180

\* C13: a sample with latitude outside [-90, 90] or longitude outside
\* [-180, 180] is rejected before evaluation. The request that carried it is
\* never in the handler and has decided nothing, and its arrival changes no
\* table, message or other request.
C13_InvalidCoordinatesRejected ==
  /\ [](\A r \in Reqs :
          /\ OutOfRange(sample[r]) =>
               /\ pc[r] = "idle" /\ result[r] = "invalid"
               /\ pending[r] = <<>> /\ decided[r] = <<>> /\ zones[r] = <<>>
          /\ OutOfRange(sample[r]) =
               ~validate_coordinates(sample[r].latitude \div MetersPerDegree,
                                     sample[r].longitude))
  /\ [][\A r \in Reqs :
          (nreq' = nreq + 1 /\ pc[r] = "idle" /\ sample'[r] # sample[r]
           /\ OutOfRange(sample'[r]))
          => /\ db_events' = db_events /\ bus' = bus /\ geofences' = geofences
             /\ lastProcessed' = lastProcessed
             /\ \A q \in Reqs \ {r} :
                  pc'[q] = pc[q] /\ pending'[q] = pending[q]]_vars

\* An out-of-range sample has been rejected after an earlier sample recorded
\* an event.
C13_Witness ==
  \E r \in Reqs :
    /\ OutOfRange(sample[r])
    /\ result[r] = "invalid"
    /\ db_events # <<>>

\* C14: whatever create, update and delete calls have run, one after another
\* or overlapping, no user has more than 10 active geofences.
C14_AtMostTenActive ==
  \A u \in Users : ActiveCount(u) <= MaxActiveGeofences

\* The validity period of a geofence contains time t; a NULL end is open.
WindowContains(geofence, t) ==
  /\ (geofence.valid_from # NoTime => geofence.valid_from <= t)
  /\ (geofence.valid_until # NoTime => t <= geofence.valid_until)

\* C15: the geofences a request evaluates are active and their validity
\* period contains the timestamp of the request's sample.
C15_OnlyActiveAndValidEvaluated ==
  \A r \in Reqs : \A z \in DOMAIN zones[r] :
    /\ zones[r][z].is_active
    /\ WindowContains(zones[r][z], sample[r].timestamp)

C17_ExitOnlyAfterEnter ==
  [][\A r \in Reqs :
       (/\ pc[r] = "eval" /\ pc'[r] = "publish"
        /\ pending'[r][Len(pending'[r])].event_type = "exit")
       => LET e == pending'[r][Len(pending'[r])]
              s == PairEvents(e.geofence_id, e.user_id)
          IN s # <<>> /\ s[Len(s)].event_type = "enter"]_vars

\* A request has decided an EXIT for a pair whose last recorded event is an
\* ENTER.
C17_Witness ==
  \E r \in Reqs :
    /\ pc[r] = "publish"
    /\ LET e == pending[r][Len(pending[r])]
           s == PairEvents(e.geofence_id, e.user_id)
       IN e.event_type = "exit" /\ s # <<>> /\ s[Len(s)].event_type = "enter"

\* The type of the most recent recorded event of a pair, None when there is
\* none.
LastEventType(g, u) ==
  LET s == PairEvents(g, u)
  IN IF s = <<>> THEN None ELSE s[Len(s)].event_type

\* The session of request r holds an event of this type for geofence g.
Emits(r, g, t) ==
  \E i \in DOMAIN pending[r] :
    pending[r][i].geofence_id = g /\ pending[r][i].event_type = t

\* C18: an exit is never missed. When a request has evaluated all its zones,
\* every zone with the exit trigger whose last recorded event is an ENTER,
\* however old, and whose exit radius the sample is outside of, has an EXIT
\* in the request's session.
C18_ExitNeverMissed ==
  \A r \in Reqs :
    pc[r] = "commit" =>
      \A z \in DOMAIN zones[r] :
        LET geofence == zones[r][z]
            distance == calculate_distance(sample[r].latitude, geofence.latitude)
        IN (/\ geofence.notify_on_exit
            /\ LastEventType(geofence.id, user[r]) = "enter"
            /\ distance > geofence.radius_meters + GEOFENCE_BUFFER_DISTANCE)
           => Emits(r, geofence.id, "exit")

\* C19: when the evaluation of a sample has ended, every zone with the enter
\* trigger that contains the sample and whose last recorded event is not an
\* ENTER (none, or an EXIT) has an ENTER in the request's session, about to
\* be committed.
C19_EnterEmitted ==
  \A r \in Reqs :
    pc[r] \in {"commit", "rollback"} =>
      \A z \in DOMAIN zones[r] :
        LET geofence == zones[r][z]
            distance == calculate_distance(sample[r].latitude, geofence.latitude)
        IN (/\ geofence.notify_on_enter
            /\ distance <= geofence.radius_meters
            /\ LastEventType(geofence.id, user[r]) # "enter")
           => pc[r] = "commit" /\ Emits(r, geofence.id, "enter")

\* The sample triggers a row of the decision table for the geofence: ENTER,
\* EXIT, or one of the rows for a sample inside a geofence with the dwell
\* trigger or of the restricted type.
TriggersRow(geofence, distance, last) ==
  \/ distance <= geofence.radius_meters /\ geofence.notify_on_enter /\ last # "enter"
  \/ /\ distance > geofence.radius_meters + GEOFENCE_BUFFER_DISTANCE
     /\ geofence.notify_on_exit /\ last = "enter"
  \/ distance <= geofence.radius_meters /\ geofence.trigger_on_dwell
  \/ distance <= geofence.radius_meters /\ geofence.geofence_type = "restricted_zone"

\* C20: a sample that triggers no row of the decision table is a no-op for
\* the geofence: when the request has evaluated all its zones, its session
\* holds no event for such a geofence, so the commit adds no row for the pair.
C20_NoRowIsNoOp ==
  \A r \in Reqs :
    pc[r] = "commit" =>
      \A z \in DOMAIN zones[r] :
        LET geofence == zones[r][z]
            distance == calculate_distance(sample[r].latitude, geofence.latitude)
        IN ~TriggersRow(geofence, distance, LastEventType(geofence.id, user[r]))
           => \A i \in DOMAIN pending[r] : pending[r][i].geofence_id # geofence.id

\* C21: a geofence edit that commits while an evaluation is in flight has no
\* effect on that evaluation. No evaluation is ended by an edit, and the step
\* that commits an edit leaves the recorded events of every zone the
\* evaluation read at its start, which its remaining decisions are made
\* from, as they were.
C21_EditsSpareInFlightEvaluation ==
  /\ [](\A r \in Reqs : error[r] # "IntegrityError")
  /\ [][\A r \in Reqs :
          (geofences' # geofences /\ pc[r] \in {"eval", "publish", "commit"})
          => \A z \in DOMAIN zones[r] :
               PairEvents(zones[r][z].id, user[r])' = PairEvents(zones[r][z].id, user[r])]_vars

\* C22: BREACH is emitted only for a restricted zone and a sample inside its
\* radius, and when a request has evaluated all its zones, every restricted
\* zone the sample enters has a BREACH event in the request's session.
C22_BreachForRestrictedZone ==
  \A r \in Reqs :
    /\ \A i \in DOMAIN pending[r] :
         pending[r][i].event_type = "breach" =>
           /\ geofences[pending[r][i].geofence_id].geofence_type = "restricted_zone"
           /\ pending[r][i].distance_meters <=
                geofences[pending[r][i].geofence_id].radius_meters
    /\ pc[r] = "commit" =>
         \A z \in DOMAIN zones[r] :
           LET geofence == zones[r][z]
               distance == calculate_distance(sample[r].latitude, geofence.latitude)
           IN (/\ geofence.geofence_type = "restricted_zone"
               /\ distance <= geofence.radius_meters
               /\ LastEventType(geofence.id, user[r]) # "enter")
              => Emits(r, geofence.id, "breach")

\* The shape invariant of a stored geofence.
ShapeInvariant(geofence) ==
  /\ geofence.shape = "circle" =>
       geofence.radius_meters.given = "value" /\ geofence.radius_meters.v > 0
  /\ geofence.shape = "polygon" =>
       geofence.coordinates.given = "value" /\ geofence.coordinates.v >= 3
  /\ geofence.shape = "rectangle" =>
       geofence.coordinates.given = "value" /\ geofence.coordinates.v = 4

\* The shape a request asks for breaks the invariant: a circle without a
\* radius, a polygon without coordinates or with fewer than 3, a rectangle
\* with a vertex count other than 4.
BreaksShape(c) ==
  \/ c.op = "create" /\ c.shape = "circle" /\ IsNone(c.radius_meters)
  \/ c.op = "create" /\ c.shape \in {"polygon", "rectangle"} /\ IsNone(c.coordinates)
  \/ c.shape = "circle" /\ ~IsNone(c.radius_meters) /\ c.radius_meters.v <= 0
  \/ c.shape \in {"polygon", "rectangle"} /\ ~IsNone(c.coordinates) /\ c.coordinates.v < 3
  \/ c.shape = "rectangle" /\ ~IsNone(c.coordinates) /\ c.coordinates.v # 4

\* C23: every stored geofence satisfies the shape invariant, and the last
\* request, if what it asked for breaks the invariant, was rejected.
C23_ShapeInvariant ==
  /\ \A g \in DOMAIN geofences : ShapeInvariant(geofences[g])
  /\ \A r \in Reqs :
       (result[r] # None /\ BreaksShape(call[r])) => result[r] = "invalid"

\* A geofence with the exit trigger and without the enter trigger.
ExitOnly(g) == geofences[g].notify_on_exit /\ ~geofences[g].notify_on_enter

\* C24: a geofence whose exit trigger is set and whose enter trigger is not
\* never gets an event: none is decided, held in a session, recorded or
\* published for it.
C24_ExitOnlyGeofenceSilent ==
  /\ \A r \in Reqs :
       /\ \A i \in DOMAIN pending[r] : ~ExitOnly(pending[r][i].geofence_id)
       /\ \A i \in DOMAIN decided[r] : ~ExitOnly(decided[r][i].geofence_id)
  /\ \A k \in DOMAIN db_events : ~ExitOnly(db_events[k].geofence_id)
  /\ \A k \in DOMAIN bus : ~ExitOnly(bus[k].geofence_id)

\* A later sample of a user has been evaluated against an exit-only geofence
\* it lies outside of, and the request goes to its commit with an empty
\* session.
C24_Witness ==
  \E r \in Reqs :
    /\ pc[r] = "commit" /\ pending[r] = <<>>
    /\ lastProcessed[user[r]] >= 0
    /\ \E z \in DOMAIN zones[r] :
         /\ ExitOnly(zones[r][z].id)
         /\ ~IsInside(calculate_distance(sample[r].latitude, zones[r][z].latitude),
                      zones[r][z])

\* C25: when a request has finished, with success or with an error, every
\* event it published (the bus acknowledged it) is a row of the table.
C25_PublishedEventsStored ==
  \A r \in Reqs :
    (pc[r] = "idle" /\ result[r] \in {"ok", "error"}) =>
      \A i \in DOMAIN decided[r] :
        decided[r][i].ack = "ack" =>
          /\ \E k \in DOMAIN bus : bus[k].id = decided[r][i].message_id
          /\ RowRecorded(r, i)

\* C26: a location update does not fail because of the pair's history: with
\* two or more events of a pair inside the look-back window, the look-up of
\* the recent event raises nothing, and a finished request has succeeded.
C26_HistoryNeverFailsUpdate ==
  \A r \in Reqs :
    /\ error[r] # "MultipleResultsFound"
    /\ Finished(r) => result[r] = "ok"

\* The handler of request r returns in this step.
Handled(r) == pc[r] = "received" /\ pc'[r] = "done"

\* Request r was answered, and it was a refresh with a token of the table.
RefreshDone(r) ==
  /\ pc[r] = "done"
  /\ call[r].op = "refresh"
  /\ call[r].token \in DOMAIN refresh_tokens

PrimaryContactsOf(u) == {c \in ContactsOf(u) : c.is_primary}

\* C28: whatever create, update and delete calls ran on the emergency
\* contacts, one after the other or overlapping, each user has at most one
\* contact with is_primary = true.
C28_AtMostOnePrimaryContact ==
  \A u \in Users : Cardinality(PrimaryContactsOf(u)) <= 1

\* The positions in handled of the messages whose handler raised and ended.
RaisedAndEnded ==
  {i \in 1..Len(consumer.handled) :
     /\ consumer.handled[i] = "raises"
     /\ (i < Len(consumer.handled) \/ consumer.at = "iterator" \/ consumer.task = "finished")}

\* C29: a handler failure does not end the consumer. The task of a consumer
\* ends only by stop_consumer; every handler error that is not cut short by
\* the stop is logged, once; and a running consumer goes on to pass every
\* message delivered to it to the handler, whatever the handler did with the
\* earlier ones, until it is stopped.
C29_ConsumerSurvivesHandlerFailure ==
  /\ [](consumer.task # "finished")
  /\ [](consumer.task = "running" =>
          /\ Len(consumer.logged) = Cardinality(RaisedAndEnded)
          /\ \A k \in 1..Len(consumer.logged) : consumer.logged[k] \in RaisedAndEnded)
  /\ (consumer.task = "running")
       ~> (consumer.task = "cancelled"
             \/ (consumer.queue = <<>> /\ consumer.at = "iterator"))

\* The handler raised on one message, the error was logged, and a later
\* message was passed to the handler and handled.
C29_Witness ==
  /\ consumer.task = "running"
  /\ consumer.at = "iterator"
  /\ \E i \in 1..Len(consumer.handled) :
       /\ consumer.handled[i] = "raises"
       /\ i < Len(consumer.handled)
       /\ \E k \in 1..Len(consumer.logged) : consumer.logged[k] = i

====
